---- MODULE Spec2Model ----
(***************************************************************************)
(* Ralph loop: the iteration supervisor (src/src/ralph/core.py) and the    *)
(* phase-aware hung detector (src/tests/test_nested_compat_fixed.py), and   *)
(* the control loop of main() around the iterations.                       *)
(*                                                                         *)
(* Time is counted in units of POLL_INTERVAL (0.1 s).                      *)
(***************************************************************************)
EXTENDS Integers, Sequences, FiniteSets, TLC

\* ------------------------------------------------------------------------
\* Bounds of the model
\* ------------------------------------------------------------------------
MaxLines == 2      \* lines the child writes (stdout and stderr together), the hung scenario apart
MaxTimeout == 3    \* largest per-iteration timeout, in poll intervals
MaxTicks == 2      \* clock advances in the tracker specification
MaxTools == 2      \* tool invocations counted in the tracker specification
MaxConsec == 2     \* consecutive text-only messages in the tracker specification
MaxIterations == 3 \* largest --max-iterations in the control-loop specification
MaxEvents == 4     \* tool invocations and tool results handled by one reader
MaxChars == 9      \* longest prompt and stdout text, in characters

\* ------------------------------------------------------------------------
\* Program constants (unit: 0.1 s)
\* ------------------------------------------------------------------------
POLL_INTERVAL == 1
RecentToolWindow == 300

COMPACTION_PATTERNS ==
    { "conversation has been automatically summarized",
      "conversation has unlimited context through automatic summarization",
      "the conversation has been compacted",
      "compacting the conversation",
      "summarizing previous messages",
      "context window is nearly full" }

\* ------------------------------------------------------------------------
\* Lines of the child's output.  A line is [type, content, text]:
\*   type    the JSON "type" of the line, "raw" when the line is not JSON,
\*           "array" when it is JSON whose top-level value is not an object
\*   content the items of message.content, each [type, id]
\*   text    the fragments of narrative text that occur in the raw line
\* ------------------------------------------------------------------------
None == <<>>
Some(x) == <<x>>

Item(t, i) == [type |-> t, id |-> i]
Line(t, c, x) == [type |-> t, content |-> c, text |-> x]

PlainA == Line("raw", <<>>, <<"building">>)
PlainB == Line("raw", <<>>, <<"done">>)
CompactRaw == Line("raw", <<>>, <<"Warning:", "Context Window Is Nearly Full">>)
CompactJson == Line("assistant", <<Item("text", "")>>, <<"context window is nearly full">>)

AsstTool(i) == Line("assistant", <<Item("tool_use", i)>>, <<>>)
AsstText == Line("assistant", <<Item("text", "")>>, <<"Let me check">>)
AsstMixed(i) == Line("assistant", <<Item("text", ""), Item("tool_use", i)>>, <<"Let me check">>)
AsstEmpty == Line("assistant", <<>>, <<>>)
UserResult(i) == Line("user", <<Item("tool_result", i)>>, <<>>)
ResultMsg == Line("result", <<>>, <<"ok">>)
SystemMsg == Line("system", <<>>, <<>>)
ArrayJson == Line("array", <<>>, <<"[1, 2]">>)

ToolIds == {"t1", "t2"}

\* str.lower() on the fragments used in the model
Lower(s) ==
    CASE s = "Context Window Is Nearly Full" -> "context window is nearly full"
      [] s = "Warning:" -> "warning:"
      [] s = "Let me check" -> "let me check"
      [] OTHER -> s

\* check_compaction_signal: some pattern occurs in the lower-cased line
check_compaction_signal(line) ==
    \E i \in DOMAIN line.text : Lower(line.text[i]) \in COMPACTION_PATTERNS

\* process_json_line: the exception that escapes it, None when it returns.
\* json.loads raises JSONDecodeError on a raw line, which is caught; on a
\* top-level value that is not an object json_obj.get raises AttributeError,
\* which the except clause (JSONDecodeError, KeyError, TypeError) lets pass.
process_json_line(line) ==
    IF line.type = "raw" THEN None
    ELSE IF line.type = "array" THEN Some("AttributeError")
    ELSE None

\* ------------------------------------------------------------------------
\* ConversationStateTracker
\* ------------------------------------------------------------------------
TrackerInit(t) ==
    [ pending_tool_calls |-> {},
      tool_invocation_count |-> 0,
      last_tool_invocation_time |-> None,
      last_message_time |-> t,
      last_text_only_message_time |-> None,
      consecutive_text_only_messages |-> 0,
      saw_result_message |-> FALSE ]

has_done_work(st) == st.tool_invocation_count > 0

in_completion_phase_one(st) ==
    /\ has_done_work(st)
    /\ Cardinality(st.pending_tool_calls) = 0
    /\ st.last_text_only_message_time # None
    /\ ~(st.consecutive_text_only_messages < 1)

in_completion_phase_three(st) ==
    /\ has_done_work(st)
    /\ Cardinality(st.pending_tool_calls) = 0
    /\ st.last_text_only_message_time # None
    /\ ~(st.consecutive_text_only_messages < 3)

in_completion_phase(st) ==
    /\ has_done_work(st)
    /\ Cardinality(st.pending_tool_calls) = 0
    /\ st.last_text_only_message_time # None
    /\ ~(st.consecutive_text_only_messages < 2)

time_since_last_activity(st, t) == t - st.last_message_time

\* the items of an assistant message, in order: the tool bookkeeping
RECURSIVE AssistantItems(_, _, _, _)
AssistantItems(st, content, i, t) ==
    IF i > Len(content) THEN st
    ELSE IF content[i].type = "tool_use" /\ content[i].id # ""
         THEN AssistantItems(
                [st EXCEPT !.pending_tool_calls = @ \cup {content[i].id},
                           !.tool_invocation_count = @ + 1,
                           !.last_tool_invocation_time = Some(t)],
                content, i + 1, t)
         ELSE AssistantItems(st, content, i + 1, t)

has_tool_use_with_id(content) ==
    \E i \in DOMAIN content : content[i].type = "tool_use" /\ content[i].id # ""

has_tool_use(content) == \E i \in DOMAIN content : content[i].type = "tool_use"
has_text(content) == \E i \in DOMAIN content : content[i].type = "text"

RECURSIVE UserItems_clears_all(_, _, _)
UserItems_clears_all(st, content, i) ==
    IF i > Len(content) THEN st
    ELSE IF content[i].type = "tool_result" /\ content[i].id \in st.pending_tool_calls
         THEN UserItems_clears_all([st EXCEPT !.pending_tool_calls = {}],
                                   content, i + 1)
         ELSE UserItems_clears_all(st, content, i + 1)

RECURSIVE UserItems_keeps_pending(_, _, _)
UserItems_keeps_pending(st, content, i) ==
    IF i > Len(content) THEN st
    ELSE UserItems_keeps_pending(st, content, i + 1)

RECURSIVE UserItems(_, _, _)
UserItems(st, content, i) ==
    IF i > Len(content) THEN st
    ELSE IF content[i].type = "tool_result" /\ content[i].id \in st.pending_tool_calls
         THEN UserItems([st EXCEPT !.pending_tool_calls = @ \ {content[i].id}],
                        content, i + 1)
         ELSE UserItems(st, content, i + 1)

\* process_line(line) at time t
process_line_system_resets_result(st, line, t) ==
    IF line.type = "raw" THEN st
    ELSE
      LET st1 == IF line.type \in {"assistant", "user", "result"}
                 THEN [st EXCEPT !.last_message_time = t] ELSE st
      IN  CASE line.type = "assistant" ->
                 LET st2 == AssistantItems(st1, line.content, 1, t)
                 IN  IF has_text(line.content) /\ ~has_tool_use(line.content)
                     THEN [st2 EXCEPT !.last_text_only_message_time = Some(t),
                                      !.consecutive_text_only_messages = @ + 1]
                     ELSE IF has_tool_use(line.content)
                          THEN [st2 EXCEPT !.consecutive_text_only_messages = 0]
                          ELSE st2
            [] line.type = "user" -> UserItems(st1, line.content, 1)
            [] line.type = "result" -> [st1 EXCEPT !.saw_result_message = TRUE]
            [] OTHER -> [st1 EXCEPT !.saw_result_message = FALSE]

process_line(st, line, t) ==
    IF line.type = "raw" THEN st
    ELSE
      LET st1 == IF line.type \in {"assistant", "user", "result"}
                 THEN [st EXCEPT !.last_message_time = t] ELSE st
      IN  CASE line.type = "assistant" ->
                 LET st2 == AssistantItems(st1, line.content, 1, t)
                 IN  IF has_text(line.content) /\ ~has_tool_use(line.content)
                     THEN [st2 EXCEPT !.last_text_only_message_time = Some(t),
                                      !.consecutive_text_only_messages = @ + 1]
                     ELSE IF has_tool_use(line.content)
                          THEN [st2 EXCEPT !.consecutive_text_only_messages = 0]
                          ELSE st2
            [] line.type = "user" -> UserItems(st1, line.content, 1)
            [] line.type = "result" -> [st1 EXCEPT !.saw_result_message = TRUE]
            [] OTHER -> st1

\* looks_hung(completion_timeout = ct, initialization_timeout = it) at time t
looks_hung_no_pending_check(st, t, ct, it) ==
    IF st.saw_result_message THEN FALSE
    ELSE IF ~has_done_work(st) THEN time_since_last_activity(st, t) > it
    ELSE IF in_completion_phase(st) THEN time_since_last_activity(st, t) > ct
    ELSE IF st.last_tool_invocation_time # None
            /\ t - st.last_tool_invocation_time[1] < RecentToolWindow THEN FALSE
    ELSE time_since_last_activity(st, t) > it

looks_hung_no_result_check(st, t, ct, it) ==
    IF ~has_done_work(st) THEN time_since_last_activity(st, t) > it
    ELSE IF Cardinality(st.pending_tool_calls) > 0 THEN FALSE
    ELSE IF in_completion_phase(st) THEN time_since_last_activity(st, t) > ct
    ELSE IF st.last_tool_invocation_time # None
            /\ t - st.last_tool_invocation_time[1] < RecentToolWindow THEN FALSE
    ELSE time_since_last_activity(st, t) > it

looks_hung_completion_in_init(st, t, ct, it) ==
    IF st.saw_result_message THEN FALSE
    ELSE IF ~has_done_work(st)
         THEN IF st.consecutive_text_only_messages >= 2
              THEN time_since_last_activity(st, t) > ct
              ELSE time_since_last_activity(st, t) > it
    ELSE IF Cardinality(st.pending_tool_calls) > 0 THEN FALSE
    ELSE IF in_completion_phase(st) THEN time_since_last_activity(st, t) > ct
    ELSE IF st.last_tool_invocation_time # None
            /\ t - st.last_tool_invocation_time[1] < RecentToolWindow THEN FALSE
    ELSE time_since_last_activity(st, t) > it

looks_hung_no_recent_tool_check(st, t, ct, it) ==
    IF st.saw_result_message THEN FALSE
    ELSE IF ~has_done_work(st) THEN time_since_last_activity(st, t) > it
    ELSE IF Cardinality(st.pending_tool_calls) > 0 THEN FALSE
    ELSE IF in_completion_phase(st) THEN time_since_last_activity(st, t) > ct
    ELSE time_since_last_activity(st, t) > it

looks_hung(st, t, ct, it) ==
    IF st.saw_result_message THEN FALSE
    ELSE IF ~has_done_work(st) THEN time_since_last_activity(st, t) > it
    ELSE IF Cardinality(st.pending_tool_calls) > 0 THEN FALSE
    ELSE IF in_completion_phase(st) THEN time_since_last_activity(st, t) > ct
    ELSE IF st.last_tool_invocation_time # None
            /\ t - st.last_tool_invocation_time[1] < RecentToolWindow THEN FALSE
    ELSE time_since_last_activity(st, t) > it


\* ------------------------------------------------------------------------
\* State
\* ------------------------------------------------------------------------
VARIABLES
    now,                \* wall clock
    \* --- one run of run_cli_iteration ---
    pc,                 \* position of the supervising thread
    timeout,            \* per-iteration timeout
    elapsed,            \* wait_with_timeout's elapsed counter
    child,              \* "none", "running" or "exited"
    returncode,         \* exit status of the child once it has exited
    script,             \* the stdout lines the child is going to write
    wrote,              \* how many of them it has written
    errScript,          \* the same for stderr
    errWrote,
    stdout_lines,       \* StreamingSubprocess.stdout_lines
    stderr_lines,       \* StreamingSubprocess.stderr_lines
    timestamped_stdout, \* StreamingSubprocess.timestamped_stdout
    rd,                 \* position of each reader thread
    compaction_event,
    stop_event,
    ret,                \* what wait_with_timeout / kill handed back
    result,             \* the IterationResult
    sawFlag,            \* history: a poll found compaction_event set
    hungAtPoll,         \* history: looks_hung was true at some poll
    hb,                 \* position of the heartbeat thread
    exitWait,           \* history: the longest the joins of __exit__ can take
    stamp,              \* the stdout reader's timestamp of the line in hand
    \* --- a ConversationStateTracker driven directly ---
    tracker,
    lastCall,           \* the latest looks_hung call, None when stale
    nticks,
    asst,               \* history: kinds of the last two assistant messages
    everResult,         \* history: a "result" line was processed
    afterResult,        \* history: a line was processed after a "result" line
    paired,             \* history: the transcript so far as invocation/result pairs
    \* --- the control loop of main() ---
    args,               \* the command line: the options main() reads
    git_dir,            \* whether the working directory is in a git repository
    mainPc,             \* position of main()
    iteration,          \* the loop variable, None while it is unbound
    previous_result,    \* the IterationResult of the latest iteration
    wrapped_prompt,     \* the prompt built for the current iteration
    results,            \* history: the results of the last two iterations run
    stop,               \* how the loop ended, "none" while it runs
    exit_code,          \* exit status of the process, None while it runs
    ran,                \* history: iterations run
    branch,             \* history: the branch taken for the latest result
    choice,             \* history: the operator's latest answer
    commit_detected,    \* history: the commit message was printed for the latest result
    \* -- token estimates of an IterationResult --
    prompt,             \* the prompt text given to run_cli_iteration
    stdout_text,        \* the stdout text captured from the child
    tokPc,              \* "start" before the result is built, "done" after
    tokens,             \* the output and token fields of the result
    \* -- the Tool Invocation Record of one stdout reader --
    tool_map,           \* tool id -> the invocation registered under it
    registered,         \* history: invocations handled, per tool id
    pairs,              \* history: paired summary/result outputs, per tool id
    mapEvent,           \* history: the latest event and the ids held before it
    mapSteps,           \* history: events handled
    \* -- extract_iteration_feedback applied to an IterationResult --
    fb_result,          \* the IterationResult, None while idle
    fb_text             \* the feedback returned, None before the call

supVars == <<pc, timeout, elapsed, child, returncode, script, wrote, errScript,
             errWrote, stdout_lines, stderr_lines, timestamped_stdout, rd,
             compaction_event, stop_event, ret, result, sawFlag, hungAtPoll,
             hb, exitWait, stamp>>
trkVars == <<tracker, lastCall, nticks, asst, everResult, afterResult, paired>>
loopVars == <<args, git_dir, mainPc, iteration, previous_result,
              wrapped_prompt, results, stop, exit_code, ran,
              branch, choice, commit_detected>>
tokVars == <<prompt, stdout_text, tokPc, tokens>>
mapVars == <<tool_map, registered, pairs, mapEvent, mapSteps>>
fbVars == <<fb_result, fb_text>>
vars == <<now, supVars, trkVars, loopVars, tokVars, mapVars, fbVars>>

NoError == [kind |-> "none", text |-> <<>>]
NoResult ==
    [ path |-> "none", success |-> FALSE, output |-> <<>>, error |-> NoError,
      timeout_occurred |-> FALSE, compaction_detected |-> FALSE,
      written |-> 0 ]
NoRet == [ returncode |-> None, stdout_text |-> <<>>, stderr_text |-> <<>>,
           compaction_detected |-> FALSE ]

SupIdle ==
    /\ pc = "start" /\ timeout = 0 /\ elapsed = 0
    /\ child = "none" /\ returncode = None
    /\ script = <<>> /\ wrote = 0 /\ errScript = <<>> /\ errWrote = 0
    /\ stdout_lines = <<>> /\ stderr_lines = <<>> /\ timestamped_stdout = <<>>
    /\ rd = [s \in {"stdout", "stderr"} |-> "idle"]
    /\ compaction_event = FALSE /\ stop_event = FALSE
    /\ ret = NoRet /\ result = NoResult
    /\ sawFlag = FALSE /\ hungAtPoll = FALSE
    /\ hb = "idle" /\ exitWait = 0 /\ stamp = None

\* the transcript so far consists of tool invocations with fresh non-empty
\* ids and of results of invocations still open: the ids invoked and the
\* ids resolved; ok is false, and the sets are empty, once it does not
NoPairs == [ok |-> TRUE, invoked |-> {}, resolved |-> {}]
BrokenPairs == [ok |-> FALSE, invoked |-> {}, resolved |-> {}]

TrkIdle ==
    /\ tracker = TrackerInit(0) /\ lastCall = None /\ nticks = 0
    /\ asst = <<>> /\ everResult = FALSE
    /\ afterResult = FALSE /\ paired = NoPairs

NoTokens == [ path |-> "none", output |-> <<>>, input_tokens |-> 0,
              output_tokens |-> 0 ]

TokIdle ==
    /\ prompt = <<>> /\ stdout_text = <<>> /\ tokPc = "idle"
    /\ tokens = NoTokens

\* tool ids of invocations: '' stands for a tool_use item without an id
MapIds == ToolIds \cup {""}
NoMapEvent == [kind |-> "none", id |-> "", path |-> "none", before |-> {}]

MapIdle ==
    /\ tool_map = <<>> /\ registered = [i \in MapIds |-> 0]
    /\ pairs = [i \in MapIds |-> 0]
    /\ mapEvent = NoMapEvent /\ mapSteps = 0

FbIdle == fb_result = None /\ fb_text = None

LoopIdle ==
    /\ args = [max_iterations |-> 0, human_in_the_loop |-> FALSE,
               timeout_total |-> None]
    /\ git_dir = FALSE
    /\ mainPc = "idle" /\ iteration = None /\ previous_result = None
    /\ wrapped_prompt = None /\ results = <<>>
    /\ stop = "none" /\ exit_code = None
    /\ ran = 0 /\ branch = "none" /\ choice = "none"
    /\ commit_detected = FALSE

\* ------------------------------------------------------------------------
\* One run of run_cli_iteration: the supervising thread, the two reader
\* threads and the child process
\* ------------------------------------------------------------------------
Streams == {"stdout", "stderr"}
PlainAlphabet == { PlainA, PlainB, CompactRaw }

RECURSIVE SeqsUpTo(_, _)
SeqsUpTo(S, n) ==
    IF n = 0 THEN { <<>> }
    ELSE LET shorter == SeqsUpTo(S, n - 1)
         IN  shorter \cup { Append(q, x) : q \in shorter, x \in S }

HungScript == << AsstTool("t1"), UserResult("t1"), AsstText, AsstText >>
Scripts == SeqsUpTo(PlainAlphabet, MaxLines)
           \cup { <<CompactJson>>, <<ArrayJson, PlainA>>, HungScript }
ErrScripts == { <<>>, <<PlainA>>, <<CompactRaw>> }
ExitCodes == {0, 1}

THREAD_JOIN_TIMEOUT == 20
SIGTERM == 15
SIGKILL == 9
TERMINATE_GRACE == 50
TestCompletionTimeout == 1
TestInitializationTimeout == 2

\* the lines a stream's pipe holds: written by the child, not yet read
Written(s) == IF s = "stdout" THEN SubSeq(script, 1, wrote)
              ELSE SubSeq(errScript, 1, errWrote)
Buffer(s) == IF s = "stdout" THEN stdout_lines ELSE stderr_lines
Unread(s) == SubSeq(Written(s), Len(Buffer(s)) + 1, Len(Written(s)))

\* the tracker state after the stdout lines read so far
RECURSIVE TrackerOf(_, _)
TrackerOf(ts, n) ==
    IF n = 0 THEN TrackerInit(0)
    ELSE process_line(TrackerOf(ts, n - 1), ts[n][2], ts[n][1])

\* --timeout 1: one second, the smallest timeout of the command line, in
\* poll intervals
LongTimeout == 10
Timeouts == 1..MaxTimeout \cup {LongTimeout}

Init ==
    /\ now = 0 /\ TrkIdle /\ LoopIdle /\ TokIdle /\ MapIdle /\ FbIdle
    /\ pc = "start" /\ elapsed = 0
    /\ timeout \in Timeouts
    /\ script \in Scripts /\ errScript \in ErrScripts
    /\ timeout = LongTimeout => (script = <<>> /\ errScript = <<>>)
    /\ Len(script) + Len(errScript) <= MaxLines \/ (script = HungScript /\ errScript = <<>>)
    /\ child = "none" /\ returncode = None
    /\ wrote = 0 /\ errWrote = 0
    /\ stdout_lines = <<>> /\ stderr_lines = <<>> /\ timestamped_stdout = <<>>
    /\ rd = [s \in Streams |-> "idle"]
    /\ compaction_event = FALSE /\ stop_event = FALSE
    /\ ret = NoRet /\ result = NoResult
    /\ sawFlag = FALSE /\ hungAtPoll = FALSE
    /\ hb = "idle" /\ exitWait = 0 /\ stamp = None

childVars == <<child, returncode, wrote, errWrote>>
readerVars == <<stdout_lines, stderr_lines, timestamped_stdout, rd, compaction_event>>
inputVars == <<timeout, script, errScript>>
thrVars == <<hb, exitWait, stamp>>
hist == <<sawFlag, hungAtPoll>>

\* --- the child process ---------------------------------------------------
ChildWrite ==
    /\ child = "running" /\ wrote < Len(script)
    /\ wrote' = wrote + 1
    /\ UNCHANGED <<now, pc, elapsed, child, returncode, errWrote, readerVars,
                   inputVars, thrVars, stop_event, ret, result, hist, trkVars,
                   tokVars, mapVars, fbVars, loopVars>>

ChildWriteErr ==
    /\ child = "running" /\ errWrote < Len(errScript)
    /\ errWrote' = errWrote + 1
    /\ UNCHANGED <<now, pc, elapsed, child, returncode, wrote, readerVars,
                   inputVars, thrVars, stop_event, ret, result, hist, trkVars,
                   tokVars, mapVars, fbVars, loopVars>>

ChildExit ==
    /\ child = "running"
    /\ wrote = Len(script) /\ errWrote = Len(errScript)
    /\ \E code \in ExitCodes : returncode' = Some(code)
    /\ child' = "exited"
    /\ UNCHANGED <<now, pc, elapsed, wrote, errWrote, readerVars, inputVars, thrVars,
                   stop_event, ret, result, hist, trkVars, tokVars, mapVars, fbVars, loopVars>>

\* --- stream_output_reader, one thread per stream -------------------------
\* readline, the timestamp and the append to the stream's buffer
ReaderRead_prepends(s) ==
    /\ rd[s] = "read"
    /\ IF Unread(s) # <<>>
       THEN IF s = "stdout"
            THEN /\ stdout_lines' = <<Head(Unread(s))>> \o stdout_lines
                 /\ stamp' = Some(now)
                 /\ rd' = [rd EXCEPT ![s] = "stamp"]
                 /\ UNCHANGED stderr_lines
            ELSE /\ stderr_lines' = <<Head(Unread(s))>> \o stderr_lines
                 /\ rd' = [rd EXCEPT ![s] = "check"]
                 /\ UNCHANGED <<stdout_lines, stamp>>
       ELSE /\ child = "exited"
            /\ rd' = [rd EXCEPT ![s] = "done"]
            /\ UNCHANGED <<stdout_lines, stderr_lines, stamp>>
    /\ UNCHANGED <<now, pc, elapsed, childVars, inputVars, timestamped_stdout,
                   compaction_event, hb, exitWait, stop_event, ret, result,
                   hist, trkVars, tokVars, mapVars, fbVars, loopVars>>

ReaderRead(s) ==
    /\ rd[s] = "read"
    /\ IF Unread(s) # <<>>
       THEN IF s = "stdout"
            THEN /\ stdout_lines' = Append(stdout_lines, Head(Unread(s)))
                 /\ stamp' = Some(now)
                 /\ rd' = [rd EXCEPT ![s] = "stamp"]
                 /\ UNCHANGED stderr_lines
            ELSE /\ stderr_lines' = Append(stderr_lines, Head(Unread(s)))
                 /\ rd' = [rd EXCEPT ![s] = "check"]
                 /\ UNCHANGED <<stdout_lines, stamp>>
       ELSE /\ child = "exited"
            /\ rd' = [rd EXCEPT ![s] = "done"]
            /\ UNCHANGED <<stdout_lines, stderr_lines, stamp>>
    /\ UNCHANGED <<now, pc, elapsed, childVars, inputVars, timestamped_stdout,
                   compaction_event, hb, exitWait, stop_event, ret, result,
                   hist, trkVars, tokVars, mapVars, fbVars, loopVars>>

\* the stdout reader: the append to timestamped_stdout, then
\* process_json_line; an exception that escapes it is caught by the
\* reader's except Exception, which logs it and ends the thread
ReaderStamp ==
    /\ rd["stdout"] = "stamp"
    /\ LET line == stdout_lines[Len(stdout_lines)]
       IN  /\ timestamped_stdout' =
                  Append(timestamped_stdout, <<stamp[1], line>>)
           /\ rd' = [rd EXCEPT !["stdout"] =
                       IF process_json_line(line) # None
                       THEN "failed" ELSE "check"]
    /\ stamp' = None
    /\ UNCHANGED <<now, pc, elapsed, childVars, inputVars, stdout_lines,
                   stderr_lines, compaction_event, hb, exitWait, stop_event,
                   ret, result, hist, trkVars, tokVars, mapVars, fbVars, loopVars>>

\* check_compaction_signal on the line just appended
ReaderCheck(s) ==
    /\ rd[s] = "check"
    /\ IF check_compaction_signal(Buffer(s)[Len(Buffer(s))])
       THEN compaction_event' = TRUE /\ rd' = [rd EXCEPT ![s] = "done"]
       ELSE UNCHANGED compaction_event /\ rd' = [rd EXCEPT ![s] = "read"]
    /\ UNCHANGED <<now, pc, elapsed, childVars, inputVars, thrVars, stdout_lines,
                   stderr_lines, timestamped_stdout, stop_event, ret, result,
                   hist, trkVars, tokVars, mapVars, fbVars, loopVars>>

\* --- StreamingSubprocess.__enter__ ---------------------------------------
EnterLaunchFails_uncaught ==
    /\ pc = "start"
    /\ pc' = "done"
    /\ UNCHANGED <<now, elapsed, childVars, readerVars, inputVars, thrVars, stop_event,
                   ret, result, hist, trkVars, tokVars, mapVars, fbVars, loopVars>>

\* subprocess.Popen raises (executable not found, permission denied): no
\* child, no threads, and the exception reaches except Exception
EnterLaunchFails ==
    /\ pc = "start"
    /\ pc' = "except"
    /\ UNCHANGED <<now, elapsed, childVars, readerVars, inputVars, thrVars, stop_event,
                   ret, result, hist, trkVars, tokVars, mapVars, fbVars, loopVars>>

Enter ==
    /\ pc = "start"
    /\ child' = "running"
    /\ rd' = [s \in Streams |-> "read"]
    /\ hb' = "test"
    /\ pc' = "loop"
    /\ UNCHANGED <<now, elapsed, returncode, wrote, errWrote, stdout_lines,
                   stderr_lines, timestamped_stdout, compaction_event,
                   inputVars, exitWait, stamp, stop_event, ret, result, hist,
                   trkVars, tokVars, mapVars, fbVars, loopVars>>

\* --- StreamingSubprocess.wait_with_timeout -------------------------------
\* elapsed is a binary double that accumulates POLL_INTERVAL = 0.1: after k
\* additions it is the rounded sum, not k/10. For k in 0..13 the sum is
\* below the double nearest to k/10 exactly for the k listed here (k = 10:
\* 0.9999999999999999 < 1.0); the difference never reaches a poll interval.
AccumulatedBelow == {8, 9, 10, 11}

\* elapsed < self.timeout, elapsed after k additions and timeout = t/10
ElapsedBelowTimeout(k, t) == k < t \/ (k = t /\ k \in AccumulatedBelow)

\* while elapsed < self.timeout ... raise TimeoutExpired
WaitLoopTest ==
    /\ pc = "loop"
    /\ pc' = IF ElapsedBelowTimeout(elapsed, timeout) THEN "check" ELSE "timeout"
    /\ UNCHANGED <<now, elapsed, childVars, readerVars, inputVars, thrVars, stop_event,
                   ret, result, hist, trkVars, tokVars, mapVars, fbVars, loopVars>>

\* if self.compaction_event.is_set(): log, terminate
WaitCheckCompaction_fallthrough ==
    /\ pc = "check"
    /\ sawFlag' = (sawFlag \/ compaction_event)
    /\ pc' = "poll"
    /\ UNCHANGED <<now, elapsed, childVars, readerVars, inputVars, thrVars, stop_event,
                   ret, result, hungAtPoll, trkVars, tokVars, mapVars, fbVars, loopVars>>

WaitCheckCompaction ==
    /\ pc = "check"
    /\ sawFlag' = (sawFlag \/ compaction_event)
    /\ pc' = IF compaction_event THEN "term_wait" ELSE "poll"
    /\ UNCHANGED <<now, elapsed, childVars, readerVars, inputVars, thrVars, stop_event,
                   ret, result, hungAtPoll, trkVars, tokVars, mapVars, fbVars, loopVars>>

\* the COMPACTION_KILL log write raises
WaitCompactionLogFails ==
    /\ pc = "check" /\ compaction_event
    /\ sawFlag' = TRUE
    /\ pc' = "exit_exc"
    /\ UNCHANGED <<now, elapsed, childVars, readerVars, inputVars, thrVars, stop_event,
                   ret, result, hungAtPoll, trkVars, tokVars, mapVars, fbVars, loopVars>>

CompactionReturn_real_status ==
    [ returncode |-> returncode, stdout_text |-> stdout_lines,
      stderr_text |-> stderr_lines, compaction_detected |-> TRUE ]

\* return 0, stdout_text, stderr_text, self.timestamped_stdout, True
CompactionReturn ==
    [ returncode |-> Some(0), stdout_text |-> stdout_lines,
      stderr_text |-> stderr_lines, compaction_detected |-> TRUE ]

\* process.wait(timeout=5) returns: the child exits on SIGTERM or had exited
WaitTerminated ==
    /\ pc = "term_wait"
    /\ IF child = "running"
       THEN child' = "exited" /\ returncode' = Some(0 - SIGTERM)
       ELSE UNCHANGED <<child, returncode>>
    /\ ret' = CompactionReturn
    /\ pc' = "returned"
    /\ UNCHANGED <<now, elapsed, wrote, errWrote, readerVars, inputVars, thrVars,
                   stop_event, result, hist, trkVars, tokVars, mapVars, fbVars, loopVars>>

\* process.wait(timeout=5) expires: process.kill(); process.wait()
WaitEscalate ==
    /\ pc = "term_wait" /\ child = "running"
    /\ now' = now + TERMINATE_GRACE
    /\ child' = "exited" /\ returncode' = Some(0 - SIGKILL)
    /\ ret' = CompactionReturn
    /\ pc' = "returned"
    /\ UNCHANGED <<elapsed, wrote, errWrote, readerVars, inputVars, thrVars,
                   stop_event, result, hist, trkVars, tokVars, mapVars, fbVars, loopVars>>

\* returncode = self.process.poll(); return, or sleep and count
WaitPoll ==
    /\ pc = "poll"
    /\ IF child = "exited"
       THEN /\ ret' = [ returncode |-> returncode, stdout_text |-> stdout_lines,
                        stderr_text |-> stderr_lines,
                        compaction_detected |-> FALSE ]
            /\ pc' = "returned"
            /\ UNCHANGED <<now, elapsed, hungAtPoll>>
       ELSE /\ elapsed' = elapsed + POLL_INTERVAL
            /\ now' = now + POLL_INTERVAL
            /\ hungAtPoll' =
                 ( hungAtPoll \/
                   looks_hung(TrackerOf(timestamped_stdout, Len(timestamped_stdout)),
                              now, TestCompletionTimeout, TestInitializationTimeout) )
            /\ pc' = "loop"
            /\ UNCHANGED ret
    /\ UNCHANGED <<childVars, readerVars, inputVars, thrVars, stop_event, result,
                   sawFlag, trkVars, tokVars, mapVars, fbVars, loopVars>>

\* --- run_cli_iteration ----------------------------------------------------
success_ignoring_compaction(rc, compaction_detected) == rc = Some(0)

success(rc, compaction_detected) == rc = Some(0) /\ ~compaction_detected

\* wait_with_timeout returned: the IterationResult of lines 1099-1110
BuildResult ==
    /\ pc = "returned"
    /\ result' =
         [ path |-> "normal",
           success |-> success(ret.returncode, ret.compaction_detected),
           output |-> ret.stdout_text,
           error |-> IF ret.returncode # Some(0)
                     THEN [kind |-> "stderr", text |-> ret.stderr_text]
                     ELSE NoError,
           timeout_occurred |-> FALSE,
           compaction_detected |-> ret.compaction_detected,
           written |-> wrote ]
    /\ pc' = "exit_ok"
    /\ UNCHANGED <<now, elapsed, childVars, readerVars, inputVars, thrVars, stop_event,
                   ret, hist, trkVars, tokVars, mapVars, fbVars, loopVars>>

\* a log write between the return and the IterationResult raises
BuildResultLogFails ==
    /\ pc \in {"returned", "killed"}
    /\ pc' = "exit_exc"
    /\ UNCHANGED <<now, elapsed, childVars, readerVars, inputVars, thrVars, stop_event,
                   ret, result, hist, trkVars, tokVars, mapVars, fbVars, loopVars>>

\* except TimeoutExpired: the TIMEOUT log write raises
TimeoutLogFails ==
    /\ pc = "timeout"
    /\ pc' = "exit_exc"
    /\ UNCHANGED <<now, elapsed, childVars, readerVars, inputVars, thrVars, stop_event,
                   ret, result, hist, trkVars, tokVars, mapVars, fbVars, loopVars>>

\* StreamingSubprocess.kill
TimeoutKill ==
    /\ pc = "timeout"
    /\ IF child = "running"
       THEN child' = "exited" /\ returncode' = Some(0 - SIGKILL)
       ELSE UNCHANGED <<child, returncode>>
    /\ ret' = [ returncode |-> None, stdout_text |-> stdout_lines,
                stderr_text |-> stderr_lines,
                compaction_detected |-> compaction_event ]
    /\ pc' = "killed"
    /\ UNCHANGED <<now, elapsed, wrote, errWrote, readerVars, inputVars, thrVars,
                   stop_event, result, hist, trkVars, tokVars, mapVars, fbVars, loopVars>>

\* the IterationResult of lines 1137-1148
TimeoutResult ==
    /\ pc = "killed"
    /\ result' =
         [ path |-> "timeout", success |-> FALSE, output |-> ret.stdout_text,
           error |-> [kind |-> "timeout", text |-> <<>>],
           timeout_occurred |-> TRUE,
           compaction_detected |-> ret.compaction_detected,
           written |-> wrote ]
    /\ pc' = "exit_ok"
    /\ UNCHANGED <<now, elapsed, childVars, readerVars, inputVars, thrVars, stop_event,
                   ret, hist, trkVars, tokVars, mapVars, fbVars, loopVars>>

\* the threads __exit__ joins that have not ended
AliveThreads ==
    { s \in Streams : rd[s] \notin {"done", "failed"} }
    \cup (IF hb = "done" THEN {} ELSE {"heartbeat"})

\* StreamingSubprocess.__exit__: set the stop event, join each thread with
\* a timeout. A thread that has ended is joined at once; for one that has
\* not, the join returns when it ends or when the timeout expires, so
\* exitWait is the longest the joins can take. Nothing reads the clock
\* after __exit__ (the results with timestamps are built before it), and
\* it is left as it is.
Exit_joins_without_timeout ==
    /\ pc \in {"exit_ok", "exit_exc"}
    /\ IF stop_event THEN AliveThreads = {} ELSE TRUE
    /\ stop_event' = TRUE
    /\ exitWait' = 0
    /\ pc' = IF stop_event THEN (IF pc = "exit_ok" THEN "done" ELSE "except")
             ELSE pc
    /\ UNCHANGED <<now, elapsed, childVars, readerVars, inputVars, hb, stamp, ret,
                   result, hist, trkVars, tokVars, mapVars, fbVars, loopVars>>

Exit ==
    /\ pc \in {"exit_ok", "exit_exc"}
    /\ stop_event' = TRUE
    /\ exitWait' = Cardinality(AliveThreads) * THREAD_JOIN_TIMEOUT
    /\ pc' = IF pc = "exit_ok" THEN "done" ELSE "except"
    /\ UNCHANGED <<now, elapsed, childVars, readerVars, inputVars, hb, stamp, ret,
                   result, hist, trkVars, tokVars, mapVars, fbVars, loopVars>>

\* except Exception: the IterationResult of lines 1166-1175
ExceptResult ==
    /\ pc = "except"
    /\ result' =
         [ path |-> "exception", success |-> FALSE, output |-> <<>>,
           error |-> [kind |-> "exception", text |-> <<>>],
           timeout_occurred |-> FALSE, compaction_detected |-> FALSE,
           written |-> wrote ]
    /\ pc' = "done"
    /\ UNCHANGED <<now, elapsed, childVars, readerVars, inputVars, thrVars, stop_event,
                   ret, hist, trkVars, tokVars, mapVars, fbVars, loopVars>>

Next ==
    \/ ChildWrite \/ ChildWriteErr \/ ChildExit
    \/ \E s \in Streams : ReaderRead(s)
    \/ ReaderStamp
    \/ \E s \in Streams : ReaderCheck(s)
    \/ EnterLaunchFails \/ Enter
    \/ WaitLoopTest \/ WaitCheckCompaction \/ WaitCompactionLogFails
    \/ WaitTerminated \/ WaitEscalate \/ WaitPoll
    \/ BuildResult \/ BuildResultLogFails
    \/ TimeoutLogFails \/ TimeoutKill \/ TimeoutResult
    \/ Exit \/ ExceptResult

Spec == Init /\ [][Next]_vars

\* ------------------------------------------------------------------------
\* The supervisor with its heartbeat thread (heartbeat_monitor), on the
\* short scripts: what the child writes is one line at most.
\* ------------------------------------------------------------------------
\* while not stop_event.is_set()
HeartbeatTest ==
    /\ hb = "test"
    /\ hb' = IF stop_event THEN "done" ELSE "poll"
    /\ UNCHANGED <<now, pc, elapsed, childVars, readerVars, inputVars,
                   exitWait, stamp, stop_event, ret, result, hist, trkVars,
                   tokVars, mapVars, fbVars, loopVars>>

HeartbeatPoll_sets_stop ==
    /\ hb = "poll"
    /\ hb' = IF child = "exited" THEN "done" ELSE "wait"
    /\ stop_event' = (stop_event \/ child = "exited")
    /\ UNCHANGED <<now, pc, elapsed, childVars, readerVars, inputVars,
                   exitWait, stamp, ret, result, hist, trkVars,
                   tokVars, mapVars, fbVars, loopVars>>

\* process.poll() and the HEARTBEAT log line; break once the child exited
HeartbeatPoll ==
    /\ hb = "poll"
    /\ hb' = IF child = "exited" THEN "done" ELSE "wait"
    /\ UNCHANGED <<now, pc, elapsed, childVars, readerVars, inputVars,
                   exitWait, stamp, stop_event, ret, result, hist, trkVars,
                   tokVars, mapVars, fbVars, loopVars>>

\* the HEARTBEAT log write raises: the exception ends the thread
HeartbeatLogFails ==
    /\ hb = "poll"
    /\ hb' = "done"
    /\ UNCHANGED <<now, pc, elapsed, childVars, readerVars, inputVars,
                   exitWait, stamp, stop_event, ret, result, hist, trkVars,
                   tokVars, mapVars, fbVars, loopVars>>

\* stop_event.wait(interval) returns: the event was set or the interval
\* has passed
HeartbeatWait ==
    /\ hb = "wait"
    /\ hb' = "test"
    /\ UNCHANGED <<now, pc, elapsed, childVars, readerVars, inputVars,
                   exitWait, stamp, stop_event, ret, result, hist, trkVars,
                   tokVars, mapVars, fbVars, loopVars>>

ThreadScripts == { <<>>, <<PlainA>>, <<CompactRaw>>, <<ArrayJson>> }

InitThreads ==
    /\ Init
    /\ timeout <= MaxTimeout
    /\ script \in ThreadScripts
    /\ errScript # <<>> => script = <<>>

NextThreads ==
    \/ Next
    \/ HeartbeatTest \/ HeartbeatPoll \/ HeartbeatLogFails \/ HeartbeatWait

SpecThreads == InitThreads /\ [][NextThreads]_vars

\* The supervising thread and the heartbeat thread are scheduled, and a
\* join with a timeout and a wait with a timeout return. Nothing is assumed
\* of the child or of the readers: the child may never write and never
\* exit, and a reader may block in readline for ever.
FairThreads ==
    /\ SpecThreads
    /\ WF_vars(Exit)
    /\ WF_vars(HeartbeatTest)
    /\ WF_vars(HeartbeatPoll \/ HeartbeatLogFails)
    /\ WF_vars(HeartbeatWait)

\* ------------------------------------------------------------------------
\* Properties of one iteration
\* ------------------------------------------------------------------------
Done == pc = "done"
PhraseLines == { CompactRaw, CompactJson }
\* the child wrote a line with the phrase before the result was built
PhraseWritten == \E i \in 1..result.written : script[i] \in PhraseLines

\* C1: if the child writes a stdout line containing "context window is
\* nearly full", the IterationResult has compaction_detected = true and
\* success = false, for every interleaving, even when the child exits 0.
C1_Original ==
    (Done /\ PhraseWritten) => (result.compaction_detected /\ ~result.success)

\* C2: on natural completion the output of the IterationResult holds every
\* line the child wrote to stdout before exiting, in order.
C2_Original ==
    (Done /\ result.path = "normal" /\ ~result.compaction_detected)
    => result.output = SubSeq(script, 1, result.written)

\* C3: success = true implies that the child exited with status 0 and that
\* no compaction was detected; on the timeout path and on the exception
\* path success is false.
C3_SuccessMeansCleanExit ==
    Done =>
      /\ result.success =>
           (child = "exited" /\ returncode = Some(0) /\ ~result.compaction_detected)
      /\ result.path \in {"timeout", "exception"} => ~result.success

\* a successful iteration whose child wrote output and exited with status 0
C3_Witness ==
    Done /\ result.success /\ result.output # <<>> /\ returncode = Some(0)

\* C4 as stated: no IterationResult has both timeout_occurred and
\* compaction_detected.
C4_Original ==
    Done => ~(result.timeout_occurred /\ result.compaction_detected)

\* C4 amended: once a poll of the wait loop has found the compaction flag
\* set, the IterationResult never has timeout_occurred; the two flags are
\* reported together only when the flag was set after the loop's last check.
C4_TimeoutAfterSeenCompaction ==
    Done => (sawFlag => ~result.timeout_occurred)

\* a timeout result that also reports compaction: the flag was set between
\* the loop's last check and kill()
C4_Witness ==
    Done /\ result.timeout_occurred /\ result.compaction_detected /\ ~sawFlag

\* C9: when the hung detector reports hung at a poll of the wait loop, the
\* child is terminated early: the iteration does not run into its timeout.
C9_Original ==
    (Done /\ hungAtPoll) => ~result.timeout_occurred

\* C10: when the IterationResult is returned, the child started for the
\* iteration has terminated, on every exit path.
C10_Original ==
    Done => child # "running"

\* raise subprocess.TimeoutExpired was reached: the wait loop's test failed
TimeoutRaised == ~ElapsedBelowTimeout(elapsed, timeout)

\* C11: when the wait loop runs out of budget (TimeoutExpired is raised),
\* the child is killed and the IterationResult has timeout_occurred = true,
\* success = false and an error text; timeout_occurred is true on no other
\* path.
C11_Original ==
    Done =>
      /\ TimeoutRaised =>
           ( /\ child = "exited"
             /\ result.timeout_occurred /\ ~result.success
             /\ result.error.kind # "none" )
      /\ result.timeout_occurred => TimeoutRaised

\* C12: wait_with_timeout returns compaction_flag = true only with exit
\* code 0, whatever the child's real status; a return through the
\* natural-completion branch has compaction_flag = false and the child's
\* real exit code.
C12_CompactionReturnsZero ==
    pc = "returned" =>
      /\ ret.compaction_detected => ret.returncode = Some(0)
      /\ ~ret.compaction_detected =>
           (child = "exited" /\ ret.returncode = returncode)

\* a compaction return for a child that had already exited with status 1
C12_Witness ==
    /\ pc = "returned" /\ ret.compaction_detected
    /\ returncode = Some(1) /\ ret.returncode = Some(0)

\* the stdout reader thread has ended
StdoutReaderEnded == rd["stdout"] \in {"done", "failed"}
\* the iteration was cancelled: cut by compaction or by the timeout
Cancelled == result.compaction_detected \/ result.timeout_occurred

\* C13: processing a stdout line never stops the stdout reader, whatever
\* the line is: the reader ends only at end of file (the child has exited
\* and every line it wrote was read) or on a compaction line.
C13_Original ==
    StdoutReaderEnded =>
      \/ child = "exited" /\ Unread("stdout") = <<>>
      \/ /\ stdout_lines # <<>>
         /\ check_compaction_signal(stdout_lines[Len(stdout_lines)])

\* C14: when the iteration is cancelled by compaction or by timeout, the
\* output of the IterationResult holds every line the child had written to
\* stdout before it was terminated.
C14_Original ==
    (Done /\ Cancelled) => result.output = SubSeq(script, 1, result.written)

\* the launch failed: the supervisor left __enter__ without a child
LaunchFailed == pc # "start" /\ child = "none"

TrackerLines ==
    { AsstTool(i) : i \in ToolIds \cup {""} } \cup { AsstMixed("t1") }
    \cup { UserResult(i) : i \in ToolIds \cup {"zz"} }
    \cup { AsstText, AsstEmpty, ResultMsg, SystemMsg, PlainA }

TextOnlyLines == { AsstText }
ToolLines == { AsstTool(i) : i \in ToolIds \cup {""} } \cup { AsstMixed("t1") }

Delays == {2, 300}
CompletionTimeouts == {1, 200}
InitializationTimeouts == {2, 900}

AsstKind(line) ==
    IF line \in TextOnlyLines THEN "text"
    ELSE IF line \in ToolLines THEN "tool" ELSE "other"

LastTwo(s) == IF Len(s) > 2 THEN SubSeq(s, Len(s) - 1, Len(s)) ELSE s

\* the pairing of the transcript extended by one line
Pairing(p, line) ==
    IF ~p.ok THEN BrokenPairs
    ELSE IF \E i \in ToolIds \ p.invoked : line \in {AsstTool(i), AsstMixed(i)}
         THEN LET i == CHOOSE j \in ToolIds \ p.invoked :
                         line \in {AsstTool(j), AsstMixed(j)}
              IN  [p EXCEPT !.invoked = @ \cup {i}]
    ELSE IF \E i \in p.invoked \ p.resolved : line = UserResult(i)
         THEN LET i == CHOOSE j \in p.invoked \ p.resolved : line = UserResult(j)
              IN  [p EXCEPT !.resolved = @ \cup {i}]
    ELSE BrokenPairs

TrackerProcessLine ==
    \E line \in TrackerLines :
        /\ line \in ToolLines => tracker.tool_invocation_count < MaxTools
        /\ line \in TextOnlyLines => tracker.consecutive_text_only_messages < MaxConsec
        /\ tracker' = process_line(tracker, line, now)
        /\ asst' = IF line.type = "assistant"
                   THEN LastTwo(Append(asst, AsstKind(line))) ELSE asst
        /\ everResult' = (everResult \/ line.type = "result")
        /\ afterResult' = (afterResult \/ everResult)
        /\ paired' = Pairing(paired, line)
        /\ lastCall' = None
        /\ UNCHANGED <<now, nticks, supVars, loopVars, tokVars, mapVars, fbVars>>

TrackerTick ==
    \E d \in Delays :
        /\ nticks < MaxTicks
        /\ nticks' = nticks + 1
        /\ now' = now + d
        /\ lastCall' = None
        /\ UNCHANGED <<tracker, asst, everResult, afterResult, paired,
                       supVars, loopVars, tokVars, mapVars, fbVars>>

TrackerLooksHung ==
    \E ct \in CompletionTimeouts, it \in InitializationTimeouts :
        /\ lastCall' = Some([ct |-> ct, it |-> it,
                             hung |-> looks_hung(tracker, now, ct, it)])
        /\ UNCHANGED <<now, tracker, nticks, asst, everResult, afterResult,
                       paired, supVars, loopVars, tokVars, mapVars, fbVars>>

InitTracker == now = 0 /\ SupIdle /\ TrkIdle /\ LoopIdle /\ TokIdle /\ MapIdle /\ FbIdle
NextTracker == TrackerProcessLine \/ TrackerTick \/ TrackerLooksHung
SpecTracker == InitTracker /\ [][NextTracker]_vars

Called == lastCall # None
Inactivity == time_since_last_activity(tracker, now)

\* C5: looks_hung returns false whenever the pending tool-call set is
\* non-empty, for every elapsed time and every pair of timeouts.
C5_PendingNeverHung ==
    (Called /\ tracker.pending_tool_calls # {}) => ~lastCall[1].hung

\* a tool is pending and the inactivity exceeds both timeouts of the call
C5_Witness ==
    /\ Called /\ tracker.pending_tool_calls # {}
    /\ Inactivity > lastCall[1].it /\ Inactivity > lastCall[1].ct
    /\ tracker.consecutive_text_only_messages >= 1

\* C6: once a "result" line has been processed, every later looks_hung
\* call returns false.
C6_ResultNeverHung ==
    (Called /\ everResult) => ~lastCall[1].hung

\* a result line was processed, later lines followed, and the inactivity
\* exceeds both timeouts of the call
C6_Witness ==
    /\ Called /\ everResult
    /\ asst = <<"text", "text">> /\ has_done_work(tracker)
    /\ tracker.pending_tool_calls = {}
    /\ Inactivity > lastCall[1].it /\ Inactivity > lastCall[1].ct

\* C7: after tool work (a tool invoked, none pending) followed by exactly
\* one text-only assistant message, looks_hung is false for an inactivity
\* that exceeds the completion timeout but not the initialization timeout.
C7_SingleTextNotHung ==
    ( /\ Called
      /\ has_done_work(tracker) /\ tracker.pending_tool_calls = {}
      /\ asst = <<"tool", "text">>
      /\ Inactivity > lastCall[1].ct /\ Inactivity <= lastCall[1].it )
    => ~lastCall[1].hung

C7_Witness ==
    /\ Called /\ ~everResult
    /\ has_done_work(tracker) /\ tracker.pending_tool_calls = {}
    /\ asst = <<"tool", "text">>
    /\ Inactivity > lastCall[1].ct /\ Inactivity <= lastCall[1].it
    /\ ~lastCall[1].hung

\* C8 as stated: the last two assistant messages are text-only, no result
\* line was seen and the inactivity exceeds the completion timeout: hung.
C8_Original ==
    ( /\ Called /\ asst = <<"text", "text">> /\ ~everResult
      /\ Inactivity > lastCall[1].ct )
    => lastCall[1].hung

\* C8 amended: the same, provided a tool has been invoked and none is
\* pending.
C8_TwoTextsHung ==
    ( /\ Called /\ asst = <<"text", "text">> /\ ~everResult
      /\ has_done_work(tracker) /\ tracker.pending_tool_calls = {}
      /\ Inactivity > lastCall[1].ct )
    => lastCall[1].hung

C8_Witness ==
    /\ Called /\ asst = <<"text", "text">> /\ ~everResult
    /\ has_done_work(tracker) /\ tracker.pending_tool_calls = {}
    /\ Inactivity > lastCall[1].ct /\ Inactivity <= lastCall[1].it
    /\ lastCall[1].hung

\* ------------------------------------------------------------------------
\* The control loop of main(): for iteration in range(1, max_iterations + 1)
\* ------------------------------------------------------------------------
COMPLETION_SIGNAL_TEXT == "RALPH_LOOP_COMPLETE"
COMPLETION_SIGNAL_EMOJI == "U+1F3AF"

\* the output of an iteration, as the set of the fragments that occur in it
GIT_COMMIT_TEXT == "git commit"
Fragments == { COMPLETION_SIGNAL_TEXT, COMPLETION_SIGNAL_EMOJI, GIT_COMMIT_TEXT }
Outputs == SUBSET Fragments

\* the IterationResults run_cli_iteration can return: the result of lines
\* 1099-1110 (the compaction flag comes with status 0 only; error is the
\* stderr text, possibly empty, when the status is not 0; max_turns_reached
\* is set when stdout or stderr mention the turn limit), of lines
\* 1137-1148 (timeout) and of lines 1166-1175 (exception)
IterationResults ==
    { [ success |-> success(Some(w[1]), w[2]), output |-> out,
        error |-> (w[1] # 0 /\ err), max_turns_reached |-> mt,
        timeout_occurred |-> FALSE, compaction_detected |-> w[2] ] :
        w \in { v \in ExitCodes \X BOOLEAN : v[2] => v[1] = 0 },
        err \in BOOLEAN, mt \in BOOLEAN, out \in Outputs }
    \cup
    { [ success |-> FALSE, output |-> out, error |-> TRUE,
        max_turns_reached |-> FALSE,
        timeout_occurred |-> TRUE, compaction_detected |-> cd ] :
        cd \in BOOLEAN, out \in Outputs }
    \cup
    { [ success |-> FALSE, output |-> {}, error |-> TRUE,
        max_turns_reached |-> FALSE,
        timeout_occurred |-> FALSE, compaction_detected |-> FALSE ] }

check_completion_text_only(r) == COMPLETION_SIGNAL_TEXT \in r.output

check_completion(r) ==
    COMPLETION_SIGNAL_TEXT \in r.output /\ COMPLETION_SIGNAL_EMOJI \in r.output

InitLoop ==
    /\ now = 0 /\ SupIdle /\ TrkIdle /\ TokIdle /\ MapIdle /\ FbIdle
    /\ args \in [ max_iterations : 0..MaxIterations,
                  human_in_the_loop : BOOLEAN,
                  timeout_total : {None, Some(1)} ]
    /\ git_dir \in BOOLEAN
    /\ mainPc = "start" /\ iteration = None /\ previous_result = None
    /\ wrapped_prompt = None /\ results = <<>>
    /\ stop = "none" /\ exit_code = None
    /\ ran = 0 /\ branch = "none" /\ choice = "none"
    /\ commit_detected = FALSE

\* parser.parse_args(): the parser of setup_argument_parser defines no
\* --timeout-total option, so a command line that carries one is rejected
\* by parser.error, which exits with status 2
UsageError == 2

parse_args ==
    /\ mainPc = "start"
    /\ IF args.timeout_total # None
       THEN mainPc' = "aborted" /\ stop' = "usage_error"
            /\ exit_code' = Some(UsageError)
       ELSE mainPc' = "validate" /\ UNCHANGED <<stop, exit_code>>
    /\ UNCHANGED <<now, supVars, trkVars, tokVars, mapVars, fbVars, args, git_dir, iteration,
                   previous_result, wrapped_prompt, results, ran, branch, choice>>
    /\ UNCHANGED commit_detected

\* if not validate_git_repository(): return 1
validate_git_repository_ignored ==
    /\ mainPc = "validate"
    /\ mainPc' = "for"
    /\ UNCHANGED <<now, supVars, trkVars, tokVars, mapVars, fbVars, args, git_dir, iteration,
                   previous_result, wrapped_prompt, results, stop, exit_code, ran, branch, choice>>
    /\ UNCHANGED commit_detected

validate_git_repository ==
    /\ mainPc = "validate"
    /\ IF git_dir
       THEN mainPc' = "for" /\ UNCHANGED <<stop, exit_code>>
       ELSE mainPc' = "aborted" /\ stop' = "not_git" /\ exit_code' = Some(1)
    /\ UNCHANGED <<now, supVars, trkVars, tokVars, mapVars, fbVars, args, git_dir, iteration,
                   previous_result, wrapped_prompt, results, ran, branch, choice>>
    /\ UNCHANGED commit_detected

extract_iteration_feedback_error_with_flags(r) ==
    LET parts ==
          (IF r.compaction_detected THEN <<"COMPACTION">> ELSE <<>>)
          \o (IF r.max_turns_reached THEN <<"MAX TURNS">> ELSE <<>>)
          \o (IF r.timeout_occurred THEN <<"TIMED OUT">> ELSE <<>>)
          \o (IF r.error THEN <<"ERROR">> ELSE <<>>)
    IN  IF parts = <<>> /\ r.success THEN <<"completed successfully">>
        ELSE IF parts # <<>> THEN parts
        ELSE <<"No feedback">>

\* extract_iteration_feedback: the parts of the feedback text, in order
extract_iteration_feedback(r) ==
    LET parts ==
          (IF r.compaction_detected THEN <<"COMPACTION">> ELSE <<>>)
          \o (IF r.max_turns_reached THEN <<"MAX TURNS">> ELSE <<>>)
          \o (IF r.timeout_occurred THEN <<"TIMED OUT">> ELSE <<>>)
          \o (IF r.error /\ ~(r.max_turns_reached \/ r.timeout_occurred
                                \/ r.compaction_detected)
              THEN <<"ERROR">> ELSE <<>>)
    IN  IF parts = <<>> /\ r.success THEN <<"completed successfully">>
        ELSE IF parts # <<>> THEN parts
        ELSE <<"No feedback">>

\* create_wrapped_prompt for a fixed task and template: the iteration
\* number and the feedback section (empty without feedback and at n = 1)
create_wrapped_prompt(n, feedback) ==
    [ iteration_num |-> n,
      feedback |-> IF feedback # None /\ feedback[1] # <<>> /\ n > 1
                   THEN feedback[1] ELSE <<>> ]

\* the for statement: bind the next value of range(1, max_iterations + 1)
\* and build the prompt of the iteration (lines 1685-1732), or run the else
\* clause when the range is exhausted
ForNext_one_more ==
    /\ mainPc = "for"
    /\ LET n == IF iteration = None THEN 1 ELSE iteration[1] + 1
           feedback == IF previous_result # None
                       THEN Some(extract_iteration_feedback(previous_result[1]))
                       ELSE None
       IN  IF n <= args.max_iterations + 1
           THEN /\ iteration' = Some(n) /\ mainPc' = "run"
                /\ wrapped_prompt' = Some(create_wrapped_prompt(n, feedback))
                /\ UNCHANGED stop
           ELSE /\ stop' = "max_iterations" /\ mainPc' = "summary"
                /\ UNCHANGED <<iteration, wrapped_prompt>>
    /\ UNCHANGED <<now, supVars, trkVars, tokVars, mapVars, fbVars, args, git_dir, previous_result,
                   results, exit_code, ran, branch, choice>>
    /\ UNCHANGED commit_detected

ForNext ==
    /\ mainPc = "for"
    /\ LET n == IF iteration = None THEN 1 ELSE iteration[1] + 1
           feedback == IF previous_result # None
                       THEN Some(extract_iteration_feedback(previous_result[1]))
                       ELSE None
       IN  IF n <= args.max_iterations
           THEN /\ iteration' = Some(n) /\ mainPc' = "run"
                /\ wrapped_prompt' = Some(create_wrapped_prompt(n, feedback))
                /\ UNCHANGED stop
           ELSE /\ stop' = "max_iterations" /\ mainPc' = "summary"
                /\ UNCHANGED <<iteration, wrapped_prompt>>
    /\ UNCHANGED <<now, supVars, trkVars, tokVars, mapVars, fbVars, args, git_dir, previous_result,
                   results, exit_code, ran, branch, choice>>
    /\ UNCHANGED commit_detected

\* result = run_claude_iteration(...); previous_result = result
RunIteration_keeps_first_result ==
    /\ mainPc = "run"
    /\ \E r \in IterationResults :
         /\ previous_result' = IF previous_result = None THEN Some(r)
                                ELSE previous_result
         /\ results' = LastTwo(Append(results, r))
    /\ ran' = ran + 1
    /\ branch' = "none" /\ choice' = "none"
    /\ mainPc' = "handle"
    /\ UNCHANGED <<now, supVars, trkVars, tokVars, mapVars, fbVars, args, git_dir, iteration,
                   wrapped_prompt, stop, exit_code>>
    /\ UNCHANGED commit_detected

RunIteration ==
    /\ mainPc = "run"
    /\ \E r \in IterationResults :
         /\ previous_result' = Some(r)
         /\ results' = LastTwo(Append(results, r))
    /\ ran' = ran + 1
    /\ branch' = "none" /\ choice' = "none"
    /\ mainPc' = "handle"
    /\ UNCHANGED <<now, supVars, trkVars, tokVars, mapVars, fbVars, args, git_dir, iteration,
                   wrapped_prompt, stop, exit_code>>
    /\ UNCHANGED commit_detected

\* if args.human_in_the_loop and not human_in_the_loop(): break
AfterBranch == IF args.human_in_the_loop THEN "ask" ELSE "for"

\* check_for_commit: the output mentions 'git commit', or git log shows a
\* commit of the last 30 seconds (recent)
check_for_commit(r, recent) == GIT_COMMIT_TEXT \in r.output \/ recent

\* the if chain of lines 1761-1805 on the result of the iteration; the
\* commit check is reached, and its message printed, on the last branch
HandleResult_completion_first ==
    /\ mainPc = "handle"
    /\ LET r == previous_result[1]
       IN  IF check_completion(r)
           THEN branch' = "complete" /\ stop' = "stop_success" /\ mainPc' = "summary"
           ELSE IF r.compaction_detected
           THEN branch' = "compaction" /\ mainPc' = AfterBranch /\ UNCHANGED stop
           ELSE IF ~r.success
           THEN branch' = "failure" /\ mainPc' = AfterBranch /\ UNCHANGED stop
           ELSE branch' = "review" /\ mainPc' = AfterBranch /\ UNCHANGED stop
    /\ UNCHANGED <<now, supVars, trkVars, tokVars, mapVars, fbVars, args, git_dir, iteration,
                   previous_result, wrapped_prompt, results,
                   exit_code, ran, choice>>
    /\ \E recent \in BOOLEAN :
         commit_detected' =
             (branch' = "review" /\ check_for_commit(previous_result[1], recent))

HandleResult_no_compaction_branch ==
    /\ mainPc = "handle"
    /\ LET r == previous_result[1]
       IN  IF ~r.success
           THEN branch' = "failure" /\ mainPc' = AfterBranch /\ UNCHANGED stop
           ELSE IF check_completion(r)
           THEN branch' = "complete" /\ stop' = "stop_success" /\ mainPc' = "summary"
           ELSE branch' = "review" /\ mainPc' = AfterBranch /\ UNCHANGED stop
    /\ UNCHANGED <<now, supVars, trkVars, tokVars, mapVars, fbVars, args, git_dir, iteration,
                   previous_result, wrapped_prompt, results,
                   exit_code, ran, choice>>
    /\ \E recent \in BOOLEAN :
         commit_detected' =
             (branch' = "review" /\ check_for_commit(previous_result[1], recent))

HandleResult_failure_never_pauses ==
    /\ mainPc = "handle"
    /\ LET r == previous_result[1]
       IN  IF r.compaction_detected
           THEN branch' = "compaction" /\ mainPc' = AfterBranch /\ UNCHANGED stop
           ELSE IF ~r.success
           THEN branch' = "failure" /\ mainPc' = "for" /\ UNCHANGED stop
           ELSE IF check_completion(r)
           THEN branch' = "complete" /\ stop' = "stop_success" /\ mainPc' = "summary"
           ELSE branch' = "review" /\ mainPc' = AfterBranch /\ UNCHANGED stop
    /\ UNCHANGED <<now, supVars, trkVars, tokVars, mapVars, fbVars, args, git_dir, iteration,
                   previous_result, wrapped_prompt, results,
                   exit_code, ran, choice>>
    /\ \E recent \in BOOLEAN :
         commit_detected' =
             (branch' = "review" /\ check_for_commit(previous_result[1], recent))

HandleResult ==
    /\ mainPc = "handle"
    /\ LET r == previous_result[1]
       IN  IF r.compaction_detected
           THEN branch' = "compaction" /\ mainPc' = AfterBranch /\ UNCHANGED stop
           ELSE IF ~r.success
           THEN branch' = "failure" /\ mainPc' = AfterBranch /\ UNCHANGED stop
           ELSE IF check_completion(r)
           THEN branch' = "complete" /\ stop' = "stop_success" /\ mainPc' = "summary"
           ELSE branch' = "review" /\ mainPc' = AfterBranch /\ UNCHANGED stop
    /\ UNCHANGED <<now, supVars, trkVars, tokVars, mapVars, fbVars, args, git_dir, iteration,
                   previous_result, wrapped_prompt, results,
                   exit_code, ran, choice>>
    /\ \E recent \in BOOLEAN :
         commit_detected' =
             (branch' = "review" /\ check_for_commit(previous_result[1], recent))

\* human_in_the_loop(): one answer of the operator; "c" returns True,
\* "s" returns False (break), anything else asks again
Choices == { "c", "s", "g", "l", "x" }

human_in_the_loop ==
    /\ mainPc = "ask"
    /\ \E c \in Choices :
        /\ choice' = c
        /\ CASE c = "c" -> mainPc' = "for" /\ UNCHANGED stop
             [] c = "s" -> mainPc' = "summary" /\ stop' = "operator_stop"
             [] OTHER   -> UNCHANGED <<mainPc, stop>>
    /\ UNCHANGED <<now, supVars, trkVars, tokVars, mapVars, fbVars, args, git_dir, iteration,
                   previous_result, wrapped_prompt, results,
                   exit_code, ran, branch>>
    /\ UNCHANGED commit_detected

\* print_final_summary(start_time, iteration, ...); write_run_summary(...);
\* return 0.  Reading iteration while the for statement never bound it
\* raises UnboundLocalError, which ends the process with status 1.
FinalSummary ==
    /\ mainPc = "summary"
    /\ exit_code' = IF iteration = None THEN Some(1) ELSE Some(0)
    /\ mainPc' = "exited"
    /\ UNCHANGED <<now, supVars, trkVars, tokVars, mapVars, fbVars, args, git_dir, iteration,
                   previous_result, wrapped_prompt, results,
                   stop, ran, branch, choice>>
    /\ UNCHANGED commit_detected

NextLoop ==
    \/ parse_args \/ validate_git_repository
    \/ ForNext \/ RunIteration \/ HandleResult \/ human_in_the_loop
    \/ FinalSummary

SpecLoop == InitLoop /\ [][NextLoop]_vars

\* ------------------------------------------------------------------------
\* Properties of the control loop
\* ------------------------------------------------------------------------
Handled == branch # "none"
FullSignal ==
    {COMPLETION_SIGNAL_TEXT, COMPLETION_SIGNAL_EMOJI} \subseteq previous_result[1].output
\* the operator was asked and the answer decides: no answer yet (or one that
\* asks again) waits, "c" goes on with the loop, "s" ends it
PauseDecides ==
    /\ choice \notin {"c", "s"} => (mainPc = "ask" /\ stop = "none")
    /\ choice = "c" => (mainPc \in {"for", "run", "summary", "exited"}
                        /\ stop \in {"none", "max_iterations"})
    /\ choice = "s" => (mainPc \in {"summary", "exited"} /\ stop = "operator_stop")
\* the loop goes on without asking the operator
NoPause ==
    /\ choice = "none" /\ mainPc \in {"for", "run", "summary", "exited"}
    /\ stop \in {"none", "max_iterations"}

\* C15: after a successful iteration the loop stops with stop-success if
\* and only if the output contains both the marker token and the marker
\* glyph; with only one of them the loop does not stop.
C15_StopIffTokenAndGlyph ==
    (Handled /\ previous_result[1].success) =>
      /\ (stop = "stop_success") <=> FullSignal
      /\ (branch = "complete") <=> FullSignal

\* a successful iteration whose output has the token but not the glyph
C15_Witness ==
    /\ Handled /\ previous_result[1].success
    /\ previous_result[1].output = {COMPLETION_SIGNAL_TEXT}
    /\ branch = "review" /\ stop = "none"

\* C16: stop-success is reached only after an iteration with success =
\* true; a failed, timed-out or compaction-cut iteration never ends the run
\* as task-complete, even with the full completion signal in its output.
C16_StopSuccessNeedsSuccess ==
    /\ stop = "stop_success" => previous_result[1].success
    /\ (Handled /\ ~previous_result[1].success) => stop # "stop_success"

\* a compaction-cut iteration with the full signal was handled
C16_Witness ==
    /\ Handled /\ previous_result[1].compaction_detected /\ FullSignal
    /\ ~previous_result[1].success /\ stop = "none"

\* C17 as stated: after an iteration with compaction_detected = true the
\* loop does not take the failure branch and does not pause for a human
\* choice, with human-in-the-loop enabled or not.
C17_Original ==
    (Handled /\ previous_result[1].compaction_detected) =>
      (branch = "compaction" /\ NoPause)

\* C17 amended: after an iteration with compaction_detected = true the loop
\* never takes the failure branch; with human-in-the-loop disabled it goes
\* on to the next iteration without pausing, with it enabled it pauses and
\* the operator's choice decides.
C17_CompactionNotFailure ==
    (Handled /\ previous_result[1].compaction_detected) =>
      /\ branch = "compaction"
      /\ ~args.human_in_the_loop => NoPause
      /\ args.human_in_the_loop => PauseDecides

\* a compaction-cut iteration after which the operator stopped the loop
C17_Witness ==
    /\ Handled /\ previous_result[1].compaction_detected
    /\ ~previous_result[1].timeout_occurred
    /\ args.human_in_the_loop /\ choice = "s" /\ stop = "operator_stop"

\* C18: after a failed iteration that is not a compaction: with
\* human-in-the-loop enabled the loop pauses and the operator's choice
\* decides; with it disabled the loop continues without pausing.
C18_FailurePausesIfEnabled ==
    (Handled /\ ~previous_result[1].success
             /\ ~previous_result[1].compaction_detected) =>
      /\ branch = "failure"
      /\ args.human_in_the_loop => PauseDecides
      /\ ~args.human_in_the_loop => NoPause

\* a failed iteration after which the operator chose to continue and the
\* loop bound the next iteration
C18_Witness ==
    /\ Handled /\ branch = "failure" /\ args.human_in_the_loop
    /\ choice = "c" /\ mainPc = "run" /\ iteration = Some(2)

\* C19: never more than max_iterations iterations run; when the loop ends
\* neither in stop-success nor by an operator stop, exactly max_iterations
\* iterations ran and it ended in the max-iterations-reached state.
C19_AtMostMaxIterations ==
    /\ ran <= args.max_iterations
    /\ (mainPc \in {"summary", "exited"}
        /\ stop \notin {"stop_success", "operator_stop"}) =>
         (ran = args.max_iterations /\ stop = "max_iterations")

\* the range was exhausted after two iterations, the last one failed
C19_Witness ==
    /\ mainPc = "exited" /\ stop = "max_iterations"
    /\ ran = 2 /\ args.max_iterations = 2 /\ branch = "failure"

\* C20: every run that ends through stop-success, max-iterations-reached or
\* an operator stop returns exit code 0.
C20_Original ==
    (mainPc = "exited"
     /\ stop \in {"stop_success", "max_iterations", "operator_stop"}) =>
      exit_code = Some(0)

Ended == mainPc \in {"exited", "aborted"}

\* C21: with a total budget configured (--timeout-total) the run exits
\* with code 2 only by reporting a total timeout, once the cumulative run
\* time exceeds the budget; with no total budget configured the run never
\* exits with code 2.
C21_Original ==
    Ended =>
      /\ (args.timeout_total # None /\ exit_code = Some(2))
           => stop = "total_timeout"
      /\ args.timeout_total = None => exit_code # Some(2)

C24_PromptFromPreviousResultOnly ==
    mainPc = "run" =>
      /\ Len(results) = IF ran < 2 THEN ran ELSE 2
      /\ iteration = Some(ran + 1)
      /\ wrapped_prompt =
           Some([ iteration_num |-> ran + 1,
                  feedback |-> IF ran = 0 THEN <<>>
                               ELSE extract_iteration_feedback(results[Len(results)]) ])

\* the prompt of iteration 3 after a timed-out iteration 1 and a successful
\* iteration 2
C24_Witness ==
    /\ mainPc = "run" /\ iteration = Some(3)
    /\ results[1].timeout_occurred /\ results[2].success
    /\ wrapped_prompt[1].feedback = <<"completed successfully">>

\* ------------------------------------------------------------------------
\* Token estimates: estimate_tokens and the token fields of IterationResult
\* ------------------------------------------------------------------------
\* a text is the sequence of its characters; only its length matters here
Texts == SeqsUpTo({"a"}, MaxChars)

\* estimate_tokens: len(text) // 4
estimate_tokens_rounded_up(text) == (Len(text) + 3) \div 4

estimate_tokens(text) == Len(text) \div 4

InitTokens ==
    /\ now = 0 /\ SupIdle /\ TrkIdle /\ LoopIdle /\ MapIdle /\ FbIdle
    /\ prompt \in Texts /\ stdout_text \in Texts
    /\ tokPc = "start" /\ tokens = NoTokens

\* the result of a run that ended by itself or by compaction
TokensNormal ==
    /\ tokPc = "start"
    /\ tokens' = [ path |-> "normal", output |-> stdout_text,
                   input_tokens |-> estimate_tokens(prompt),
                   output_tokens |-> estimate_tokens(stdout_text) ]
    /\ tokPc' = "done"
    /\ UNCHANGED <<now, supVars, trkVars, loopVars, mapVars, fbVars, prompt, stdout_text>>

\* the result of a run that timed out
TokensTimeout ==
    /\ tokPc = "start"
    /\ tokens' = [ path |-> "timeout", output |-> stdout_text,
                   input_tokens |-> estimate_tokens(prompt),
                   output_tokens |-> estimate_tokens(stdout_text) ]
    /\ tokPc' = "done"
    /\ UNCHANGED <<now, supVars, trkVars, loopVars, mapVars, fbVars, prompt, stdout_text>>

\* the result built by the exception handler: no output, no output tokens
TokensException ==
    /\ tokPc = "start"
    /\ tokens' = [ path |-> "exception", output |-> <<>>,
                   input_tokens |-> estimate_tokens(prompt),
                   output_tokens |-> 0 ]
    /\ tokPc' = "done"
    /\ UNCHANGED <<now, supVars, trkVars, loopVars, mapVars, fbVars, prompt, stdout_text>>

NextTokens == TokensNormal \/ TokensTimeout \/ TokensException

SpecTokens == InitTokens /\ [][NextTokens]_vars

\* e is the integer part of n / 4
FloorQuarter(e, n) == 4 * e <= n /\ n < 4 * e + 4

\* C25: the input token field of every result is floor(len(prompt) / 4) and
\* the output token field is floor(len(output) / 4) of the stdout text the
\* result carries (the captured stdout on the normal and timeout paths, the
\* empty text on the exception path): 0 for an empty text and k for a text
\* of exactly 4k characters.
C25_TokensAreFloorQuarter ==
    tokPc = "done" =>
      /\ FloorQuarter(tokens.input_tokens, Len(prompt))
      /\ FloorQuarter(tokens.output_tokens, Len(tokens.output))
      /\ tokens.path \in {"normal", "timeout"} => tokens.output = stdout_text
      /\ Len(prompt) = 0 => tokens.input_tokens = 0
      /\ \A k \in 0..MaxChars :
           /\ Len(prompt) = 4 * k => tokens.input_tokens = k
           /\ Len(tokens.output) = 4 * k => tokens.output_tokens = k

\* a prompt of 8 characters and a stdout text of 7 characters
C25_Witness ==
    /\ tokPc = "done" /\ tokens.path = "normal"
    /\ Len(prompt) = 8 /\ Len(stdout_text) = 7
    /\ tokens.input_tokens = 2 /\ tokens.output_tokens = 1

\* ------------------------------------------------------------------------
\* Claims about process_line and the initialization phase (SpecTracker)
\* ------------------------------------------------------------------------
ConsecutiveAfter(line) ==
    process_line(tracker, line, now).consecutive_text_only_messages

\* C26: in every reachable tracker state, processing an assistant message
\* with a tool invocation (with or without text, with or without an id)
\* leaves consecutive_text_only_messages at 0, processing an assistant
\* message with text and no tool invocation increases it by exactly 1, and
\* processing any other line leaves it unchanged.
C26_ConsecutiveCounter ==
    \A line \in TrackerLines :
        ConsecutiveAfter(line) =
          IF line \in ToolLines THEN 0
          ELSE IF line \in TextOnlyLines
               THEN tracker.consecutive_text_only_messages + 1
               ELSE tracker.consecutive_text_only_messages

\* a text-only message, then a message with a tool invocation: the counter
\* is back at 0
C26_Witness ==
    /\ asst = <<"text", "tool">>
    /\ tracker.consecutive_text_only_messages = 0
    /\ tracker.last_text_only_message_time # None

PendingAfter(line) == process_line(tracker, line, now).pending_tool_calls

\* C27: in every reachable tracker state, a tool result whose id is pending
\* removes that id and no other from the pending set (one element less),
\* and a tool result whose id is not pending leaves the set unchanged.
C27_ResultRemovesOnlyItsId ==
    \A i \in ToolIds \cup {"zz"} :
        LET p == tracker.pending_tool_calls
            q == PendingAfter(UserResult(i))
        IN  IF i \in p
            THEN q = p \ {i} /\ Cardinality(q) = Cardinality(p) - 1
            ELSE q = p

\* two invocations at time 0, then, later, the result of the first
C27_Witness ==
    /\ paired.ok /\ paired.invoked = {"t1", "t2"} /\ paired.resolved = {"t1"}
    /\ tracker.pending_tool_calls = {"t2"}
    /\ tracker.last_tool_invocation_time = Some(0)
    /\ tracker.last_message_time > 0

\* C28: once saw_result_message is true, no step makes it false.
C28_SawResultMonotonic ==
    [][tracker.saw_result_message => tracker'.saw_result_message]_vars

\* a line was processed after a result line
C28_Witness == afterResult /\ tracker.saw_result_message

\* C29: after a transcript of N invocations with distinct non-empty ids,
\* each followed (at once or later) by its result, and nothing else, the
\* pending set is empty and tool_invocation_count is N.
C29_PairedTranscriptEndsClean ==
    (paired.ok /\ paired.resolved = paired.invoked) =>
        /\ tracker.pending_tool_calls = {}
        /\ tracker.tool_invocation_count = Cardinality(paired.invoked)

\* a transcript of two pairs
C29_Witness ==
    /\ paired.ok /\ paired.resolved = paired.invoked
    /\ Cardinality(paired.invoked) = 2
    /\ tracker.tool_invocation_count = 2

InitializationPhase ==
    tracker.tool_invocation_count = 0 /\ ~tracker.saw_result_message

\* C30: while no tool has been invoked and no result message seen,
\* looks_hung is true exactly when the inactivity exceeds the
\* initialization timeout, whatever the completion timeout and the number
\* of text-only messages.
C30_InitPhaseUsesInitTimeout ==
    (Called /\ InitializationPhase) =>
        (lastCall[1].hung <=> Inactivity > lastCall[1].it)

\* two text-only messages, inactivity beyond the completion timeout but not
\* beyond the initialization timeout: not hung
C30_Witness ==
    /\ Called /\ InitializationPhase
    /\ tracker.consecutive_text_only_messages >= 2
    /\ Inactivity > lastCall[1].ct /\ Inactivity <= lastCall[1].it
    /\ ~lastCall[1].hung

\* work happened, no tool pending, fewer than two consecutive text-only
\* messages, and the last tool invocation is less than 30 s old
AmbiguousPhase ==
    /\ has_done_work(tracker) /\ tracker.pending_tool_calls = {}
    /\ tracker.consecutive_text_only_messages < 2
    /\ tracker.last_tool_invocation_time # None
    /\ now - tracker.last_tool_invocation_time[1] < RecentToolWindow

\* C31: in the ambiguous phase looks_hung returns false, for every
\* inactivity and every pair of timeouts.
C31_AmbiguousNotHung ==
    (Called /\ AmbiguousPhase) => ~lastCall[1].hung

\* one text-only message after tool work, the inactivity beyond both
\* timeouts, the tool invocation still recent
C31_Witness ==
    /\ Called /\ AmbiguousPhase /\ ~everResult
    /\ tracker.consecutive_text_only_messages = 1
    /\ Inactivity > lastCall[1].it /\ Inactivity > lastCall[1].ct
    /\ ~lastCall[1].hung

\* ------------------------------------------------------------------------
\* Claims about the wait loop, cancellation and the threads (Spec)
\* ------------------------------------------------------------------------
\* iterations of the wait loop begun so far: each one polls the compaction
\* flag and, unless that ends the loop, the child
Polls == IF pc \in {"check", "poll", "term_wait"} THEN elapsed + 1 ELSE elapsed

\* wait_with_timeout was left by the exception of the COMPACTION_KILL log
\* write
WaitRaisedOther == pc = "exit_exc" /\ ret = NoRet /\ sawFlag

\* C32: wait_with_timeout begins at most ceil(timeout / POLL_INTERVAL)
\* polls (timeout, in poll intervals), ends by returning or by raising
\* TimeoutExpired, and raises TimeoutExpired only if no poll observed
\* compaction or the exit of the child.
C32_Original ==
    /\ Polls <= timeout
    /\ ~WaitRaisedOther
    /\ pc = "timeout" => (~sawFlag /\ ret = NoRet)

\* process.terminate() was called: the loop found the compaction flag set
TerminateRequested ==
    pc = "term_wait" \/ (ret.compaction_detected /\ ret.returncode # None)

\* the child was ended by process.kill()
ForcedKill == returncode = Some(0 - SIGKILL)

\* C33: a forced kill of the child is always preceded by a request for
\* graceful termination, on the compaction path and on the timeout path.
C33_Original == ForcedKill => TerminateRequested

\* C34: the compaction flag is never cleared, and a poll of the wait loop
\* that finds it set terminates the child and returns with
\* compaction_detected = true, without looking at the child's exit status.
C34_Original ==
    [][ /\ compaction_event => compaction_event'
        /\ (pc = "check" /\ compaction_event /\ pc' # pc) => pc' = "term_wait"
        /\ (pc = "term_wait" /\ pc' # pc) =>
             /\ pc' = "returned" /\ child' = "exited"
             /\ ret'.compaction_detected /\ ret'.returncode = Some(0) ]_vars

\* ------------------------------------------------------------------------
\* The Tool Invocation Record: handle_tool_invocation, handle_tool_result
\* ------------------------------------------------------------------------
\* tool ids of results: "zz" was never registered
ResultIds == MapIds \cup {"zz"}

\* tool_map[tool_id] = {summary, timestamp}: n identifies the invocation
handle_tool_invocation(m, tool_id, n) ==
    [x \in DOMAIN m \cup {tool_id} |-> IF x = tool_id THEN n ELSE m[x]]

\* tool_info = tool_map.get(tool_id): the paired output and del, or the
\* fallback output
handle_tool_result_keeps_entry(m, tool_id) ==
    IF tool_id \in DOMAIN m
    THEN [tool_map |-> m, path |-> "paired"]
    ELSE [tool_map |-> m, path |-> "fallback"]

handle_tool_result(m, tool_id) ==
    IF tool_id \in DOMAIN m
    THEN [tool_map |-> [x \in DOMAIN m \ {tool_id} |-> m[x]], path |-> "paired"]
    ELSE [tool_map |-> m, path |-> "fallback"]

InitToolMap ==
    /\ now = 0 /\ SupIdle /\ TrkIdle /\ LoopIdle /\ TokIdle /\ MapIdle /\ FbIdle

\* process_json_line on an assistant line with one tool_use item
ToolInvoked ==
    \E i \in MapIds :
        /\ mapSteps < MaxEvents
        /\ tool_map' = handle_tool_invocation(tool_map, i, mapSteps + 1)
        /\ registered' = [registered EXCEPT ![i] = @ + 1]
        /\ mapEvent' = [kind |-> "invocation", id |-> i, path |-> "none",
                        before |-> DOMAIN tool_map]
        /\ mapSteps' = mapSteps + 1
        /\ UNCHANGED <<now, supVars, trkVars, loopVars, tokVars, fbVars, pairs>>

\* process_json_line on a user line with one tool_result item
ToolResult ==
    \E i \in ResultIds :
        /\ mapSteps < MaxEvents
        /\ LET r == handle_tool_result(tool_map, i)
           IN  /\ tool_map' = r.tool_map
               /\ pairs' = IF r.path = "paired"
                           THEN [pairs EXCEPT ![i] = @ + 1] ELSE pairs
               /\ mapEvent' = [kind |-> "result", id |-> i, path |-> r.path,
                               before |-> DOMAIN tool_map]
        /\ mapSteps' = mapSteps + 1
        /\ UNCHANGED <<now, supVars, trkVars, loopVars, tokVars, fbVars, registered>>

NextToolMap == ToolInvoked \/ ToolResult

SpecToolMap == InitToolMap /\ [][NextToolMap]_vars

RECURSIVE SumOver(_, _)
SumOver(f, S) ==
    IF S = {} THEN 0
    ELSE LET x == CHOOSE y \in S : TRUE IN f[x] + SumOver(f, S \ {x})

C36_ExitTerminates ==
    LET Leaving == pc \in {"exit_ok", "exit_exc"}
        Left == child # "none" /\ pc \in {"done", "except"}
    IN  /\ Leaving ~> Left
        /\ [](Left => (stop_event /\ exitWait <= 3 * THREAD_JOIN_TIMEOUT))
        /\ (hb # "idle" /\ (stop_event \/ child = "exited")) ~> (hb = "done")
C36_Witness ==
    /\ pc = "done" /\ stop_event
    /\ child = "running" /\ rd["stderr"] = "read"
    /\ hb = "done" /\ exitWait = 3 * THREAD_JOIN_TIMEOUT

\* C37: the heartbeat thread only observes: a step of it leaves the child,
\* the output buffers, the compaction flag and the stop event as they are,
\* and with them the position of wait_with_timeout, its elapsed counter
\* and what it returns.
C37_HeartbeatOnlyObserves ==
    [][(hb # "idle" /\ hb' # hb) =>
         UNCHANGED <<childVars, readerVars, stop_event, pc, elapsed, ret,
                     result, now>>]_vars
C37_Witness ==
    /\ hb = "done" /\ ~stop_event
    /\ pc = "returned" /\ ret.returncode = Some(0) /\ ~ret.compaction_detected

\* C38: each buffer holds the lines read from its stream in the order the
\* child wrote them and grows only by its own reader appending one line;
\* timestamped_stdout lists the lines of stdout_lines in the same order and
\* is at most one entry behind.
C38_BuffersInArrivalOrder ==
    /\ [](/\ Len(timestamped_stdout) <= Len(stdout_lines)
          /\ Len(stdout_lines) <= Len(timestamped_stdout) + 1
          /\ \A i \in DOMAIN timestamped_stdout :
               timestamped_stdout[i][2] = stdout_lines[i]
          /\ \A s \in Streams :
               /\ Len(Buffer(s)) <= Len(Written(s))
               /\ Buffer(s) = SubSeq(Written(s), 1, Len(Buffer(s))))
    /\ [][ \A s \in Streams :
             LET old == IF s = "stdout" THEN stdout_lines ELSE stderr_lines
                 new == IF s = "stdout" THEN stdout_lines' ELSE stderr_lines'
             IN  new # old =>
                   /\ rd[s] = "read" /\ rd'[s] # "read"
                   /\ \A o \in Streams \ {s} : rd'[o] = rd[o]
                   /\ Len(new) = Len(old) + 1
                   /\ SubSeq(new, 1, Len(old)) = old ]_vars
C38_Witness ==
    /\ Len(stdout_lines) = 2 /\ Len(timestamped_stdout) = 1
    /\ stdout_lines[1] # stdout_lines[2]
    /\ rd["stdout"] = "stamp"

\* ------------------------------------------------------------------------
\* Claims about the commit check of the control loop (SpecLoop)
\* ------------------------------------------------------------------------
\* C40, as stated: when a commit is detected after a successful iteration
\* without the completion signal, the loop exits and no further iteration
\* is started.
C40_Original == commit_detected => mainPc # "run"

\* ------------------------------------------------------------------------
\* extract_iteration_feedback on every IterationResult: the dataclass
\* allows every combination of its fields (error: the error text is there
\* and not empty)
\* ------------------------------------------------------------------------
AnyIterationResults ==
    [ success : BOOLEAN, output : Outputs, error : BOOLEAN,
      max_turns_reached : BOOLEAN, timeout_occurred : BOOLEAN,
      compaction_detected : BOOLEAN ]

InitFeedback ==
    /\ now = 0 /\ SupIdle /\ TrkIdle /\ LoopIdle /\ TokIdle /\ MapIdle
    /\ fb_result \in { Some(r) : r \in AnyIterationResults }
    /\ fb_text = None

ExtractFeedback ==
    /\ fb_result # None /\ fb_text = None
    /\ fb_text' = Some(extract_iteration_feedback(fb_result[1]))
    /\ UNCHANGED <<now, supVars, trkVars, loopVars, tokVars, mapVars, fb_result>>

NextFeedback == ExtractFeedback

SpecFeedback == InitFeedback /\ [][NextFeedback]_vars

\* C39: the feedback has exactly one block for each of compaction, max
\* turns and timeout that is flagged and none for one that is not; the
\* error block only when an error text is present and none of the three
\* is flagged; the success acknowledgement only when no block applies and
\* success is true; and it is never empty.
C39_FeedbackPerCause ==
    fb_text # None =>
      LET r == fb_result[1]
          f == fb_text[1]
          Blocks(b) == { i \in DOMAIN f : f[i] = b }
          One(flag, b) == Cardinality(Blocks(b)) = IF flag THEN 1 ELSE 0
          CauseFlagged ==
              r.compaction_detected \/ r.max_turns_reached \/ r.timeout_occurred
      IN  /\ One(r.compaction_detected, "COMPACTION")
          /\ One(r.max_turns_reached, "MAX TURNS")
          /\ One(r.timeout_occurred, "TIMED OUT")
          /\ Blocks("ERROR") # {} => (r.error /\ ~CauseFlagged)
          /\ Blocks("completed successfully") # {} =>
                (r.success /\ ~CauseFlagged /\ ~r.error /\ Len(f) = 1)
          /\ f # <<>>
C39_Witness ==
    /\ fb_text = Some(<<"COMPACTION", "TIMED OUT">>)
    /\ fb_result[1].error /\ fb_result[1].success

====
